---- MODULE Spec2Model ----
(***************************************************************************)
(* Model of the Kinematics repository: ArmSectionDescription, RobotArm     *)
(* (src/model/robot.py) and Scene (src/model/scene.py).                    *)
(*                                                                         *)
(* Python objects that are mutable and passed by reference (lists of       *)
(* sections, numpy arrays) live in heaps keyed by object identity, so that *)
(* "copy" and "store the reference" are different things in the model.     *)
(* Angles are integers; limits are drawn from odd integers so that the     *)
(* midpoint (theta_min + theta_max) / 2 is computed exactly.               *)
(***************************************************************************)
EXTENDS Integers, Sequences, FiniteSets, TLC

\* Longest section list an arm is constructed from.
MaxSections == 2

\* Python's None; an optional value v is <<v>>.
None == <<>>

Some(v) == <<v>>

\* ---------------------------------------------------------------------
\* Input domains
\* ---------------------------------------------------------------------

\* Angles a caller writes into a joint vector: below every limit, inside
\* every limit, above every limit.
Angles == {-2, 2, 4}

\* ArmSectionDescription(radius, length, theta_min=None, theta_max=None)
ArmSectionDescription(radius, length, theta_min, theta_max) ==
    [radius |-> radius, length |-> length,
     theta_min |-> theta_min, theta_max |-> theta_max]

\* Sections differing in their limits only (well-formed geometry).
LimitSections ==
    { ArmSectionDescription(1, 1, lo, hi) :
        lo \in {None, Some(1)}, hi \in {None, Some(3)} }

\* Sections of every shape the dataclass accepts, ill-formed ones included.
AnySections ==
    { ArmSectionDescription(r, l, lo, hi) :
        r \in {0, 1}, l \in {0, 1},
        lo \in {None, Some(-1), Some(3)}, hi \in {None, Some(-1), Some(3)} }

\* Two sections: no limits, and limits [-1, 3].
FewSections ==
    { ArmSectionDescription(1, 1, None, None),
      ArmSectionDescription(1, 1, Some(-1), Some(3)) }

SeqsUpTo(S, n) == UNION { [1..k -> S] : k \in 0..n }

\* 4x4 homogeneous transforms, row major.
Identity4 ==
    << <<1, 0, 0, 0>>, <<0, 1, 0, 0>>, <<0, 0, 1, 0>>, <<0, 0, 0, 1>> >>

\* Pure translation by d along x.
TransX(d) ==
    << <<1, 0, 0, d>>, <<0, 1, 0, 0>>, <<0, 0, 1, 0>>, <<0, 0, 0, 1>> >>

\* ---------------------------------------------------------------------
\* State
\* ---------------------------------------------------------------------
VARIABLES
    secHeap,        \* list objects: identity -> sequence of sections
    _arm_sections,  \* RobotArm._arm_sections: identity of a list
    callerSecs,     \* the caller's list variable: identity of a list
    callerSecsFrom, \* where the caller's list came from
    arrHeap,        \* ndarray objects: identity -> [ndim, data]
    _joints,        \* RobotArm._joints: identity of an ndarray
    callerArr,      \* the caller's array variable: None or Some(identity)
    _robot_pose,    \* Scene._robot_pose: None or Some(4x4 matrix)
    op,             \* name of the last operation
    raised,         \* exception type the last operation raised, or "none"
    ret             \* value the last operation returned

vars == << secHeap, _arm_sections, callerSecs, callerSecsFrom, arrHeap,
           _joints, callerArr, _robot_pose, op, raised, ret >>

secVars == << secHeap, _arm_sections, callerSecs, callerSecsFrom >>

arrVars == << arrHeap, _joints, callerArr >>

NoValue == [kind |-> "none", val |-> 0]

\* ---------------------------------------------------------------------
\* Object heaps
\* ---------------------------------------------------------------------

\* Identity of a newly allocated object.
FreshId(heap) ==
    CHOOSE i \in 1..(Cardinality(DOMAIN heap) + 1) : i \notin DOMAIN heap

\* Reference counting: objects nobody refers to are freed.
Collect(heap, roots) == [i \in (DOMAIN heap) \cap roots |-> heap[i]]

Refs(optRef) == { optRef[i] : i \in DOMAIN optRef }

\* ---------------------------------------------------------------------
\* RobotArm.__init__
\* ---------------------------------------------------------------------

\* [copy.deepcopy(sec) for sec in src]: a new list object holding equal
\* sections (sections are frozen dataclasses, i.e. values).
CopySections_alias(heap, src) == [heap |-> heap, ref |-> src]

CopySections(heap, src) ==
    LET new == FreshId(heap)
    IN  [heap |-> (new :> heap[src]) @@ heap, ref |-> new]

\* (theta_min + theta_max) / 2 if both are set, else 0.
DefaultJoint_min(sec) ==
    IF sec.theta_min # None /\ sec.theta_max # None
    THEN sec.theta_min[1]
    ELSE 0

DefaultJoint(sec) ==
    IF sec.theta_min # None /\ sec.theta_max # None
    THEN (sec.theta_min[1] + sec.theta_max[1]) \div 2
    ELSE 0

\* np.array([...]) : a one-dimensional array.
NdArray1(data) == [ndim |-> 1, data |-> data]

\* np.array([[...]]) : a 1 x k two-dimensional array.
NdArray2(data) == [ndim |-> 2, data |-> data]

\* shape[0]
Shape0(arr) == IF arr.ndim = 1 THEN Len(arr.data) ELSE 1

\* State after  secs = [...]; arm = RobotArm(secs); scene = Scene(arm, pose)
Construct(secs, pose) ==
    LET arg == (1 :> secs)
        own == CopySections(arg, 1)
        mine == own.heap[own.ref]
    IN  /\ secHeap = own.heap
        /\ _arm_sections = own.ref
        /\ callerSecs = 1
        /\ callerSecsFrom = "constructor"
        /\ arrHeap = (1 :> NdArray1([i \in 1..Len(mine) |-> DefaultJoint(mine[i])]))
        /\ _joints = 1
        /\ callerArr = None
        /\ _robot_pose = pose
        /\ op = "__init__"
        /\ raised = "none"
        /\ ret = NoValue

\* ---------------------------------------------------------------------
\* RobotArm accessors
\* ---------------------------------------------------------------------
num_sections == Len(secHeap[_arm_sections])

\* What the joints property would return now.
joints == arrHeap[_joints].data

\* What the arm_sections property would return now.
arm_sections == secHeap[_arm_sections]

\* v = arm.joints : the caller's variable is bound to a copy.
ReadJoints ==
    LET kept == Collect(arrHeap, {_joints})
        new == FreshId(kept)
    IN  /\ arrHeap' = (new :> arrHeap[_joints]) @@ kept
        /\ callerArr' = Some(new)
        /\ op' = "joints"
        /\ raised' = "none"
        /\ ret' = NoValue
        /\ UNCHANGED << _joints, secVars, _robot_pose >>

\* ---------------------------------------------------------------------
\* The caller's own arrays
\* ---------------------------------------------------------------------

\* v = np.full(k, angle)
CallerNewArray ==
    \E k \in 0..(num_sections + 1), angle \in Angles :
        LET kept == Collect(arrHeap, {_joints})
            new == FreshId(kept)
        IN  /\ arrHeap' = (new :> NdArray1([i \in 1..k |-> angle])) @@ kept
            /\ callerArr' = Some(new)
            /\ op' = "np.full"
            /\ raised' = "none"
            /\ ret' = NoValue
            /\ UNCHANGED << _joints, secVars, _robot_pose >>

\* v[i] = angle : written in place, seen through every reference.
CallerWriteArray ==
    /\ callerArr # None
    /\ \E i \in DOMAIN arrHeap[callerArr[1]].data, angle \in Angles :
        /\ arrHeap[callerArr[1]].data[i] # angle
        /\ arrHeap' = [arrHeap EXCEPT ![callerArr[1]].data[i] = angle]
    /\ op' = "array_write"
    /\ raised' = "none"
    /\ ret' = NoValue
    /\ UNCHANGED << _joints, callerArr, secVars, _robot_pose >>

\* ---------------------------------------------------------------------
\* RobotArm.set_joints
\* ---------------------------------------------------------------------

\* new_joints.shape[0] != self.num_sections
ShapeMismatch_short(arr, n) == Shape0(arr) < n

ShapeMismatch(arr, n) == Shape0(arr) # n

\* sec.theta_min is not None and angle < sec.theta_min
BelowMin(angle, sec) == sec.theta_min # None /\ angle < sec.theta_min[1]

\* sec.theta_max is not None and angle > sec.theta_max
AboveMax(angle, sec) == sec.theta_max # None /\ angle > sec.theta_max[1]

\* Indices at which the loop over zip(new_joints, self._arm_sections) raises.
LimitViolations_first(data, secs) ==
    { idx \in (DOMAIN data) \cap (DOMAIN secs) \cap {1} :
        BelowMin(data[idx], secs[idx]) \/ AboveMax(data[idx], secs[idx]) }

LimitViolations(data, secs) ==
    { idx \in (DOMAIN data) \cap (DOMAIN secs) :
        BelowMin(data[idx], secs[idx]) \/ AboveMax(data[idx], secs[idx]) }

\* The exception set_joints(arr) raises, or "none".
SetJointsRaises(arr) ==
    IF arr.ndim # 1 THEN "InvalidJointsError"
    ELSE IF ShapeMismatch(arr, num_sections) THEN "InvalidJointsError"
    ELSE IF LimitViolations(arr.data, secHeap[_arm_sections]) # {}
         THEN "InvalidJointsError"
    ELSE "none"

\* set_joints(new_joints) with new_joints the object ref; holders are the
\* references the caller keeps afterwards.
set_joints(ref, heap, holders) ==
    /\ raised' = SetJointsRaises(heap[ref])
    /\ IF SetJointsRaises(heap[ref]) = "none"
       THEN /\ _joints' = ref
            /\ arrHeap' = Collect(heap, {ref} \cup holders)
       ELSE /\ _joints' = _joints
            /\ arrHeap' = Collect(heap, {_joints} \cup holders)
    /\ ret' = NoValue

\* arm.set_joints(v)
CallSetJoints ==
    /\ callerArr # None
    /\ set_joints(callerArr[1], arrHeap, Refs(callerArr))
    /\ op' = "set_joints(v)"
    /\ UNCHANGED << callerArr, secVars, _robot_pose >>

\* arm.set_joints(np.full(k, angle)) or arm.set_joints(np.full((1, k), angle)):
\* the caller keeps no reference to the argument.
CallSetJointsTemp ==
    \E k \in 0..(num_sections + 1), angle \in Angles, two_d \in BOOLEAN :
        LET new == FreshId(arrHeap)
            data == [i \in 1..k |-> angle]
            arr == IF two_d THEN NdArray2(data) ELSE NdArray1(data)
        IN  /\ set_joints(new, (new :> arr) @@ arrHeap, Refs(callerArr))
            /\ op' = "set_joints(temporary)"
            /\ UNCHANGED << callerArr, secVars, _robot_pose >>

\* ---------------------------------------------------------------------
\* RobotArm.num_sections, RobotArm.arm_sections and the caller's lists
\* ---------------------------------------------------------------------

\* n = arm.num_sections
ReadNumSections ==
    /\ op' = "num_sections"
    /\ raised' = "none"
    /\ ret' = [kind |-> "int", val |-> Len(secHeap[_arm_sections])]
    /\ UNCHANGED << secVars, arrVars, _robot_pose >>

\* secs = arm.arm_sections : the caller's variable is bound to the result.
ReadArmSections ==
    LET kept == Collect(secHeap, {_arm_sections})
        out == CopySections(kept, _arm_sections)
    IN  /\ secHeap' = out.heap
        /\ callerSecs' = out.ref
        /\ callerSecsFrom' = "arm_sections"
        /\ op' = "arm_sections"
        /\ raised' = "none"
        /\ ret' = NoValue
        /\ UNCHANGED << _arm_sections, arrVars, _robot_pose >>

\* secs[i] = sec
CallerListWrite ==
    /\ \E i \in DOMAIN secHeap[callerSecs], sec \in FewSections :
        /\ secHeap[callerSecs][i] # sec
        /\ secHeap' = [secHeap EXCEPT ![callerSecs][i] = sec]
    /\ op' = "list_write"
    /\ raised' = "none"
    /\ ret' = NoValue
    /\ UNCHANGED << _arm_sections, callerSecs, callerSecsFrom, arrVars, _robot_pose >>

\* secs.append(sec)
CallerListAppend ==
    /\ Len(secHeap[callerSecs]) < MaxSections
    /\ \E sec \in FewSections :
        secHeap' = [secHeap EXCEPT ![callerSecs] = Append(@, sec)]
    /\ op' = "list_append"
    /\ raised' = "none"
    /\ ret' = NoValue
    /\ UNCHANGED << _arm_sections, callerSecs, callerSecsFrom, arrVars, _robot_pose >>

\* secs.pop()
CallerListPop ==
    /\ Len(secHeap[callerSecs]) > 0
    /\ secHeap' = [secHeap EXCEPT ![callerSecs] = SubSeq(@, 1, Len(@) - 1)]
    /\ op' = "list_pop"
    /\ raised' = "none"
    /\ ret' = NoValue
    /\ UNCHANGED << _arm_sections, callerSecs, callerSecsFrom, arrVars, _robot_pose >>

\* ---------------------------------------------------------------------
\* Forward and inverse kinematics
\* ---------------------------------------------------------------------

\* Target poses handed to the inverse kinematics entry points.
Targets == { TransX(d) : d \in 0..(MaxSections + 1) }

\* raise NotImplementedError
NotImplemented(name) ==
    /\ op' = name
    /\ raised' = "NotImplementedError"
    /\ ret' = NoValue
    /\ UNCHANGED << secVars, arrVars, _robot_pose >>

get_tip_pose == NotImplemented("get_tip_pose")

get_tip_position == NotImplemented("get_tip_position")

get_joints_from_pose(target_pose) == NotImplemented("get_joints_from_pose")

set_tip_pose(target_pose) == NotImplemented("set_tip_pose")

CallGetJointsFromPose == \E t \in Targets : get_joints_from_pose(t)

CallSetTipPose == \E t \in Targets : set_tip_pose(t)

\* ---------------------------------------------------------------------
\* Scene
\* ---------------------------------------------------------------------

\* scene.robot_arm
ReadRobotArm ==
    /\ op' = "robot_arm"
    /\ raised' = "none"
    /\ ret' = [kind |-> "RobotArm", val |-> 0]
    /\ UNCHANGED << secVars, arrVars, _robot_pose >>

\* scene.robot_pose : self._robot_pose.copy()
ReadRobotPose ==
    /\ op' = "robot_pose"
    /\ IF _robot_pose = None
       THEN /\ raised' = "AttributeError"
            /\ ret' = NoValue
       ELSE /\ raised' = "none"
            /\ ret' = [kind |-> "matrix", val |-> _robot_pose[1]]
    /\ UNCHANGED << secVars, arrVars, _robot_pose >>

\* ---------------------------------------------------------------------
\* Specifications
\* ---------------------------------------------------------------------

\* Joint state, with a caller that keeps and rewrites its arrays.
Init == \E secs \in SeqsUpTo(FewSections, MaxSections) : Construct(secs, None)

Next ==
    \/ ReadJoints
    \/ CallerNewArray
    \/ CallerWriteArray
    \/ CallSetJoints

Spec == Init /\ [][Next]_vars

\* Joint state under every combination of limits; the caller never rewrites
\* an array.
InitLimits ==
    \E secs \in SeqsUpTo(LimitSections, MaxSections) : Construct(secs, None)

NextLimits ==
    \/ ReadJoints
    \/ CallerNewArray
    \/ CallSetJoints
    \/ CallSetJointsTemp

SpecLimits == InitLimits /\ [][NextLimits]_vars

\* Section list, with a caller that rewrites the lists it holds.
InitSections ==
    \E secs \in SeqsUpTo(FewSections, MaxSections) : Construct(secs, None)

NextSections ==
    \/ ReadNumSections
    \/ ReadArmSections
    \/ CallerListWrite
    \/ CallerListAppend
    \/ CallerListPop
    \/ ReadJoints
    \/ CallSetJointsTemp

SpecSections == InitSections /\ [][NextSections]_vars

\* Construction from any section list, kinematics and the scene.
InitApi ==
    \E secs \in SeqsUpTo(AnySections, MaxSections),
       pose \in {None, Some(TransX(1))} : Construct(secs, pose)

NextApi ==
    \/ ReadNumSections
    \/ ReadJoints
    \/ get_tip_pose
    \/ get_tip_position
    \/ CallGetJointsFromPose
    \/ CallSetTipPose
    \/ ReadRobotArm
    \/ ReadRobotPose

SpecApi == InitApi /\ [][NextApi]_vars

\* ---------------------------------------------------------------------
\* Properties
\* ---------------------------------------------------------------------

\* The limits as the specification words them, written without the
\* operators set_joints is modelled with.
WithinLimits(angle, sec) ==
    /\ \A lo \in Refs(sec.theta_min) : lo <= angle
    /\ \A hi \in Refs(sec.theta_max) : angle <= hi

\* The array the caller's variable refers to.
callerArray == arrHeap[callerArr[1]]

\* C1: in every reachable state, the state right after construction
\* included, every joints[i] lies within the limits of section i that are
\* defined.
C1_JointLimitInvariant ==
    \A i \in DOMAIN joints :
        i \in DOMAIN arm_sections => WithinLimits(joints[i], arm_sections[i])

\* C2: set_joints with a length-N vector that has at least one component
\* outside its section's limits raises InvalidJointsError and leaves joints
\* as it was, whichever index violates.
C2_LimitEnforcement ==
    [][ ( /\ CallSetJoints
          /\ callerArray.ndim = 1
          /\ Len(callerArray.data) = num_sections
          /\ \E i \in 1..num_sections :
                ~WithinLimits(callerArray.data[i], arm_sections[i]) )
        => ( raised' = "InvalidJointsError" /\ joints' = joints ) ]_vars

\* C2 witness: a call was rejected for a vector of the right length whose
\* first component is valid and whose second component is out of limits.
C2_Witness ==
    /\ op = "set_joints(v)"
    /\ raised = "InvalidJointsError"
    /\ callerArray.ndim = 1
    /\ Len(callerArray.data) = num_sections
    /\ num_sections >= 2
    /\ WithinLimits(callerArray.data[1], arm_sections[1])
    /\ ~WithinLimits(callerArray.data[2], arm_sections[2])
    /\ joints # callerArray.data

\* C3: set_joints with a vector whose length is not N raises
\* InvalidJointsError and leaves joints as it was, even when every supplied
\* component is within limits.
C3_ShapeValidation ==
    [][ ( /\ CallSetJoints
          /\ callerArray.ndim = 1
          /\ Len(callerArray.data) # num_sections )
        => ( raised' = "InvalidJointsError" /\ joints' = joints ) ]_vars

\* C3 witness: a call was rejected for a vector one longer than the arm,
\* every component of which is within the limits of its section.
C3_Witness ==
    /\ op = "set_joints(v)"
    /\ raised = "InvalidJointsError"
    /\ callerArray.ndim = 1
    /\ num_sections >= 1
    /\ Len(callerArray.data) = num_sections + 1
    /\ \A i \in 1..num_sections :
        WithinLimits(callerArray.data[i], arm_sections[i])

\* C4: writing in place into a vector the caller holds (one returned by
\* joints, or one passed to a successful set_joints) does not change what
\* joints returns.
C4_JointsNotShared == [][ CallerWriteArray => joints' = joints ]_vars

\* C5: right after construction the joint vector has N entries, the
\* midpoint of the limits where both are defined and 0 elsewhere.
C5_DefaultJoints ==
    op = "__init__" =>
        /\ Len(joints) = num_sections
        /\ \A i \in 1..num_sections :
            LET sec == arm_sections[i]
            IN  IF sec.theta_min # None /\ sec.theta_max # None
                THEN 2 * joints[i] = sec.theta_min[1] + sec.theta_max[1]
                ELSE joints[i] = 0

\* C5 witness: a freshly constructed arm holding a section with limits
\* [-1, 3], whose joint is 1, and a section bounded on one side only.
C5_Witness ==
    /\ op = "__init__"
    /\ \E i \in 1..num_sections :
        /\ arm_sections[i].theta_min = Some(-1)
        /\ arm_sections[i].theta_max = Some(3)
        /\ joints[i] = 1
    /\ \E i \in 1..num_sections :
        /\ arm_sections[i].theta_min # None
        /\ arm_sections[i].theta_max = None

\* C6: no operation changes the ordered section list arm_sections returns,
\* nor its length num_sections.
C6_SectionsFixed == [][ arm_sections' = arm_sections ]_vars

\* C6 witness: the caller rewrote a list returned by arm_sections, which now
\* differs from the arm's own.
C6_Witness ==
    /\ callerSecsFrom = "arm_sections"
    /\ op \in {"list_write", "list_append", "list_pop"}
    /\ secHeap[callerSecs] # arm_sections

\* C7: every section held by a constructed arm has radius > 0, length > 0
\* and theta_min <= theta_max when both are defined.
C7_SectionsValidated ==
    \A i \in DOMAIN arm_sections :
        LET sec == arm_sections[i]
        IN  /\ sec.radius > 0
            /\ sec.length > 0
            /\ (sec.theta_min # None /\ sec.theta_max # None)
                   => sec.theta_min[1] <= sec.theta_max[1]

RECURSIVE SumLengths(_)
\* Sum of the section lengths: the farthest the tip can be from the base.
SumLengths(secs) ==
    IF secs = <<>> THEN 0 ELSE secs[1].length + SumLengths(Tail(secs))

\* A target farther from the base than the arm is long.
Unreachable(target_pose) == target_pose[1][4] > SumLengths(arm_sections)

\* C8: a set_tip_pose that raises leaves joints as it was, and for an
\* unreachable target what it raises is IKFailure.
C8_SetTipPoseFailure ==
    [][ \A t \in Targets :
          ( set_tip_pose(t) /\ raised' # "none" )
          => ( /\ joints' = joints
               /\ Unreachable(t) => raised' = "IKFailure" ) ]_vars

\* C9: get_tip_pose of an arm without sections returns the identity.
C9_ZeroLengthChain ==
    ( op = "get_tip_pose" /\ num_sections = 0 )
        => ( raised = "none" /\ ret.kind = "matrix" /\ ret.val = Identity4 )

\* C10: robot_pose of a Scene constructed without a pose is the identity,
\* and of a Scene constructed with a pose is that pose.
C10_ScenePlacement ==
    op = "robot_pose" =>
        /\ raised = "none"
        /\ ret.kind = "matrix"
        /\ ret.val = (IF _robot_pose = None THEN Identity4 ELSE _robot_pose[1])

====
